---- MODULE Spec2Model ----
(***************************************************************************)
(* Model of the Country AI Assistant chat page                             *)
(* (WebDevelopmentLab03/pages/Country_Chatbot.py): the session state, the  *)
(* command classification, the chat and sidebar handlers, and the prompt   *)
(* history window; and, of the insights page (Country_Insights.py), the    *)
(* cached model selection, the country fetch and the AI-generation         *)
(* functions.                                                              *)
(*                                                                         *)
(* Strings are sequences of atoms.  Text the code inspects character by    *)
(* character (chat input, country names) is written one character per      *)
(* atom; a literal the code only concatenates is written as one atom.      *)
(***************************************************************************)
EXTENDS Integers, Sequences, FiniteSets, TLC

VARIABLES
    chat_history,     \* st.session_state.chat_history: sequence of [role, content]
    current_country,  \* st.session_state.current_country
    country_data,     \* st.session_state.country_data: None or a record
    chat_started,     \* st.session_state.chat_started
    gemini_model,     \* module-level gemini_model (result of init_gemini)
    resource_cache,   \* st.cache_resource: per page, the cached result of init_gemini
    pc,               \* "render": a script run is still to reach its end; "idle": waiting for the user
    last              \* trace of the user action being handled (observation only)

vars == <<chat_history, current_country, country_data, chat_started, gemini_model,
          resource_cache, pc, last>>

(***************************************************************************)
(* Bounds of the model                                                     *)
(***************************************************************************)
\* longest chat history the session specification lets the handlers build
MaxHist == 2
\* longest pre-existing history of the prompt-window specification
MaxLen == 7
\* most tokens concatenated into one chat input of the classification specification
MaxTokens == 3

(***************************************************************************)
(* Python str methods used by the page                                     *)
(***************************************************************************)
LowerAlpha == <<"a","b","c","d","e","f","g","h","i","j","k","l","m",
                "n","o","p","q","r","s","t","u","v","w","x","y","z">>
UpperAlpha == <<"A","B","C","D","E","F","G","H","I","J","K","L","M",
                "N","O","P","Q","R","S","T","U","V","W","X","Y","Z">>

UpperSet == {UpperAlpha[i] : i \in 1..26}
LowerSet == {LowerAlpha[i] : i \in 1..26}
ToLower == [c \in UpperSet |-> LowerAlpha[CHOOSE i \in 1..26 : UpperAlpha[i] = c]]
ToUpper == [c \in LowerSet |-> UpperAlpha[CHOOSE i \in 1..26 : LowerAlpha[i] = c]]

IsUpper(c) == c \in UpperSet
IsLower(c) == c \in LowerSet
IsCased(c) == IsUpper(c) \/ IsLower(c)
IsSpace(c) == c \in {" ", "\t", "\n"}

LowerChar(c) == IF IsUpper(c) THEN ToLower[c] ELSE c
UpperChar(c) == IF IsLower(c) THEN ToUpper[c] ELSE c

\* str.lower()
Lower(s) == [i \in 1..Len(s) |-> LowerChar(s[i])]

\* str.strip(): drops the whitespace at both ends
RECURSIVE LStrip(_)
LStrip(s) == IF s # <<>> /\ IsSpace(Head(s)) THEN LStrip(Tail(s)) ELSE s
RECURSIVE RStrip(_)
RStrip(s) == IF s # <<>> /\ IsSpace(s[Len(s)]) THEN RStrip(SubSeq(s, 1, Len(s) - 1)) ELSE s
Strip(s) == RStrip(LStrip(s))

\* str.startswith(p)
StartsWith(s, p) == Len(s) >= Len(p) /\ SubSeq(s, 1, Len(p)) = p

\* str.replace(old, ""): removes every non-overlapping occurrence of old, left to right
RECURSIVE ReplaceWithEmpty(_, _)
ReplaceWithEmpty(s, old) ==
    IF Len(s) < Len(old) THEN s
    ELSE IF StartsWith(s, old) THEN ReplaceWithEmpty(SubSeq(s, Len(old) + 1, Len(s)), old)
    ELSE <<Head(s)>> \o ReplaceWithEmpty(Tail(s), old)

\* str.title(): a cased character is upper-cased when the character before it is
\* uncased (or it is the first), lower-cased otherwise
Title(s) == [i \in 1..Len(s) |->
                IF i > 1 /\ IsCased(s[i - 1]) THEN LowerChar(s[i]) ELSE UpperChar(s[i])]

(***************************************************************************)
(* Literals of the page                                                    *)
(***************************************************************************)
SwitchToPrefix == <<"s","w","i","t","c","h"," ","t","o"," ">>
NewCountry == <<"n","e","w"," ","c","o","u","n","t","r","y">>
ChangeCountry == <<"c","h","a","n","g","e"," ","c","o","u","n","t","r","y">>
DifferentCountry == <<"d","i","f","f","e","r","e","n","t"," ","c","o","u","n","t","r","y">>
Help == <<"h","e","l","p">>
WhatCanYouDo == <<"w","h","a","t"," ","c","a","n"," ","y","o","u"," ","d","o">>
Commands == <<"c","o","m","m","a","n","d","s">>

\* Python's None where a string is expected (command_data of a command without data)
NoneStr == <<"<None>">>

(***************************************************************************)
(* handle_special_command                                                  *)
(***************************************************************************)
\* (the classification with the input lower-cased but not trimmed)
handle_special_command_NoStrip(message) ==
    LET message_lower == Lower(message) IN
    IF StartsWith(message_lower, SwitchToPrefix)
    THEN [command_type |-> "change_country",
          command_data |-> Title(Strip(ReplaceWithEmpty(message_lower, SwitchToPrefix)))]
    ELSE IF message_lower \in {NewCountry, ChangeCountry, DifferentCountry}
    THEN [command_type |-> "prompt_country", command_data |-> NoneStr]
    ELSE IF message_lower \in {Help, WhatCanYouDo, Commands}
    THEN [command_type |-> "show_help", command_data |-> NoneStr]
    ELSE [command_type |-> "normal_message", command_data |-> NoneStr]

handle_special_command(message) ==
    LET message_lower == Strip(Lower(message)) IN
    IF StartsWith(message_lower, SwitchToPrefix)
    THEN [command_type |-> "change_country",
          command_data |-> Title(Strip(ReplaceWithEmpty(message_lower, SwitchToPrefix)))]
    ELSE IF message_lower \in {NewCountry, ChangeCountry, DifferentCountry}
    THEN [command_type |-> "prompt_country", command_data |-> NoneStr]
    ELSE IF message_lower \in {Help, WhatCanYouDo, Commands}
    THEN [command_type |-> "show_help", command_data |-> NoneStr]
    ELSE [command_type |-> "normal_message", command_data |-> NoneStr]

(***************************************************************************)
(* Python sequence helpers                                                 *)
(***************************************************************************)
Min(a, b) == IF a < b THEN a ELSE b
Max(a, b) == IF a > b THEN a ELSE b

\* s[-n:]: a negative start counts from the end and is clamped at the beginning
SliceLast_FromStart(s, n) == [i \in 1..(IF n < Len(s) THEN n ELSE Len(s)) |-> s[i]]

SliceLast(s, n) ==
    LET start == Max(Len(s) - n, 0) IN
    [i \in 1..(Len(s) - start) |-> s[start + i]]

\* a slice that drops nothing
SliceFirst_Whole(s, n) == s

\* s[:n]
SliceFirst(s, n) == [i \in 1..Min(n, Len(s)) |-> s[i]]

\* sep.join(items)
RECURSIVE Join(_, _)
Join(items, sep) ==
    IF items = <<>> THEN <<>>
    ELSE IF Len(items) = 1 THEN items[1]
    ELSE items[1] \o sep \o Join(Tail(items), sep)

\* str(n) for n >= 0
Digit == <<"0","1","2","3","4","5","6","7","8","9">>
RECURSIVE Str(_)
Str(n) == IF n < 10 THEN <<Digit[n + 1]>> ELSE Str(n \div 10) \o <<Digit[(n % 10) + 1]>>

\* f"{n:,}" for n >= 0: groups of three digits separated by commas
RECURSIVE Grouped(_)
Grouped(n) ==
    IF n < 1000 THEN Str(n)
    ELSE Grouped(n \div 1000) \o <<",">>
         \o <<Digit[((n \div 100) % 10) + 1], Digit[((n \div 10) % 10) + 1], Digit[(n % 10) + 1]>>

\* format_number: numbers of the model are non-negative integers, for which int(num) is num
format_number(num) == Grouped(num)

\* dict.get(key, default)
Get(obj, key, default) == IF key \in DOMAIN obj THEN obj[key] ELSE default

\* Python's None where a record is expected
None == [none |-> TRUE]

\* truth value of country_data: None is false, a record (a non-empty dict) is true
Truthy(data) == data # None

(***************************************************************************)
(* The country-facts service (external): what a lookup can answer          *)
(***************************************************************************)
UnitedStates == <<"U","n","i","t","e","d"," ","S","t","a","t","e","s">>
Japan == <<"J","a","p","a","n">>
France == <<"F","r","a","n","c","e">>
Atlantis == <<"A","t","l","a","n","t","i","s">>

ServiceObject(q) ==
    IF Lower(q) = Lower(UnitedStates) THEN
        [name |-> [common |-> UnitedStates, official |-> <<"United States of America">>],
         capital |-> << <<"Washington, D.C.">> >>, region |-> <<"Americas">>,
         subregion |-> <<"North America">>, population |-> 329484123, area |-> 9372610,
         languages |-> [eng |-> <<"English">>], currencies |-> [USD |-> <<"United States dollar">>],
         timezones |-> << <<"UTC-12:00">>, <<"UTC-05:00">> >>, flag |-> <<"US-flag">>,
         independent |-> TRUE, unMember |-> TRUE]
    ELSE IF Lower(q) = Lower(Japan) THEN
        [name |-> [common |-> Japan, official |-> <<"Japan">>],
         capital |-> << <<"Tokyo">> >>, region |-> <<"Asia">>,
         subregion |-> <<"Eastern Asia">>, population |-> 125836021, area |-> 377930,
         languages |-> [jpn |-> <<"Japanese">>], currencies |-> [JPY |-> <<"Japanese yen">>],
         timezones |-> << <<"UTC+09:00">> >>, flag |-> <<"JP-flag">>,
         independent |-> TRUE, unMember |-> TRUE]
    ELSE
        [name |-> [common |-> France, official |-> <<"French Republic">>],
         capital |-> << <<"Paris">> >>, region |-> <<"Europe">>,
         subregion |-> <<"Western Europe">>, population |-> 67391582, area |-> 551695,
         languages |-> [fra |-> <<"French">>], currencies |-> [EUR |-> <<"Euro">>],
         timezones |-> << <<"UTC+01:00">> >>, flag |-> <<"FR-flag">>,
         independent |-> TRUE, unMember |-> TRUE]

KnownToService(q) == Lower(q) \in {Lower(UnitedStates), Lower(Japan), Lower(France)}

\* what requests.get can produce for a name: it raises (network error, timeout),
\* answers a status other than 200, answers 200 with an empty array, or, for a
\* name the service knows, answers 200 with the matches
\* body: what response.json() gives: "array" (json is the list), "object" (json
\* is a mapping), or "invalid" (the body is no JSON and json() raises)
Response(raised, status_code, body, json) ==
    [raised |-> raised, status_code |-> status_code, body |-> body, json |-> json]

Responses(country_name) ==
    {Response(TRUE, 0, "array", <<>>),
     Response(FALSE, 404, "array", <<>>),
     Response(FALSE, 200, "array", <<>>)}
    \cup (IF KnownToService(country_name)
          THEN {Response(FALSE, 200, "array", <<ServiceObject(country_name)>>)}
          ELSE {})

(***************************************************************************)
(* fetch_country_data                                                      *)
(***************************************************************************)
\* the values, resp. the keys, of a mapping, in key order
RECURSIVE DictValues(_, _)
DictValues(d, keys) ==
    IF keys = {} THEN <<>>
    ELSE LET k == CHOOSE x \in keys : TRUE IN <<d[k]>> \o DictValues(d, keys \ {k})
RECURSIVE DictKeys(_)
DictKeys(keys) ==
    IF keys = {} THEN <<>>
    ELSE LET k == CHOOSE x \in keys : TRUE IN << <<k>> >> \o DictKeys(keys \ {k})

Unknown == <<"Unknown">>

\* {}: the empty mapping
EmptyDict == [x \in {} |-> <<>>]

\* x is None, whatever kind of value x is
IsNone(x) == ToString(x) = ToString(None)

\* `not x` for x a list, a mapping or None
Falsy(x) == IsNone(x) \/ x = <<>>

\* response.status_code == 200, and a test that lets any status pass
StatusOk_AnyStatus(response) == TRUE

StatusOk(response) == response.status_code = 200

\* an exception raised anywhere in the body is caught and None is returned:
\* json() of an invalid body, data[0] of a mapping, .get of an element that is
\* no mapping, .get of a null "name"
fetch_country_data(country_name, response) ==
    IF response.raised THEN None
    ELSE IF StatusOk(response) THEN
        LET data == response.json IN
        IF response.body # "array" THEN None
        ELSE IF data # <<>> THEN
            LET country == data[1] IN
            IF IsNone(country) THEN None
            ELSE IF IsNone(Get(country, "name", EmptyDict)) THEN None
            ELSE
            [name |-> Get(Get(country, "name", EmptyDict), "common", NoneStr),
             official_name |-> Get(Get(country, "name", EmptyDict), "official", NoneStr),
             capital |-> IF ~Falsy(Get(country, "capital", <<>>))
                         THEN Get(country, "capital", <<Unknown>>)[1] ELSE Unknown,
             region |-> Get(country, "region", Unknown),
             subregion |-> Get(country, "subregion", Unknown),
             population |-> Get(country, "population", 0),
             area |-> Get(country, "area", 0),
             languages |-> IF ~Falsy(Get(country, "languages", EmptyDict))
                           THEN DictValues(country.languages, DOMAIN country.languages)
                           ELSE <<Unknown>>,
             currencies |-> IF ~Falsy(Get(country, "currencies", EmptyDict))
                            THEN DictKeys(DOMAIN country.currencies)
                            ELSE <<Unknown>>,
             timezones |-> Get(country, "timezones", <<>>),
             flag |-> Get(country, "flag", <<"white-flag">>),
             independent |-> Get(country, "independent", FALSE),
             un_member |-> Get(country, "unMember", FALSE)]
        ELSE None
    ELSE None

(***************************************************************************)
(* get_country_context                                                     *)
(***************************************************************************)
YesNo(b) == IF b THEN <<"Yes">> ELSE <<"No">>

\* a formatter that names the first 3 timezones where the template counts them
get_country_context_TimezoneNames(data) ==
    IF ~Truthy(data) THEN <<"No country data available.">>
    ELSE <<"Current Country: ">> \o data.name \o <<" ">> \o data.flag
         \o <<"- Official Name: ">> \o data.official_name
         \o <<"- Capital: ">> \o data.capital
         \o <<"- Region: ">> \o data.region \o <<" (">> \o data.subregion \o <<")">>
         \o <<"- Population: ">> \o format_number(data.population)
         \o <<"- Area: ">> \o format_number(data.area) \o <<" km2">>
         \o <<"- Languages: ">> \o Join(data.languages, <<", ">>)
         \o <<"- Currencies: ">> \o Join(data.currencies, <<", ">>)
         \o <<"- Timezones: ">> \o Join(SliceFirst(data.timezones, 3), <<", ">>)
         \o <<"- UN Member: ">> \o YesNo(data.un_member)
         \o <<"- Independent: ">> \o YesNo(data.independent)

get_country_context(data) ==
    IF ~Truthy(data) THEN <<"No country data available.">>
    ELSE <<"Current Country: ">> \o data.name \o <<" ">> \o data.flag
         \o <<"- Official Name: ">> \o data.official_name
         \o <<"- Capital: ">> \o data.capital
         \o <<"- Region: ">> \o data.region \o <<" (">> \o data.subregion \o <<")">>
         \o <<"- Population: ">> \o format_number(data.population)
         \o <<"- Area: ">> \o format_number(data.area) \o <<" km2">>
         \o <<"- Languages: ">> \o Join(data.languages, <<", ">>)
         \o <<"- Currencies: ">> \o Join(data.currencies, <<", ">>)
         \o <<"- Timezones: ">> \o Str(Len(data.timezones))
         \o <<"- UN Member: ">> \o YesNo(data.un_member)
         \o <<"- Independent: ">> \o YesNo(data.independent)

(***************************************************************************)
(* init_gemini: the model the page talks to, or NoModel                    *)
(***************************************************************************)
NoModel == "None"

models_to_try == <<"gemini-1.5-flash", "gemini-1.0-pro", "gemini-pro", "models/gemini-1.5-flash">>

\* a probe of one model: GenerativeModel(name).generate_content("Hello") raises,
\* answers an empty text, or answers a text
ProbeResults == {"raises", "empty", "text"}

\* a probe loop that takes any answer, an empty one too, for a success
RECURSIVE TryModels_AcceptsEmpty(_, _)
TryModels_AcceptsEmpty(i, probes) ==
    IF i > Len(models_to_try) THEN NoModel
    ELSE IF probes[i] # "raises" THEN models_to_try[i]
    ELSE TryModels_AcceptsEmpty(i + 1, probes)

\* the identifiers the loop probes, in the order it probes them
RECURSIVE ProbedModels(_, _)
ProbedModels(i, probes) ==
    IF i > Len(models_to_try) THEN <<>>
    ELSE <<models_to_try[i]>>
         \o (IF probes[i] = "text" THEN <<>> ELSE ProbedModels(i + 1, probes))

RECURSIVE TryModels(_, _)
TryModels(i, probes) ==
    IF i > Len(models_to_try) THEN NoModel
    ELSE IF probes[i] = "text" THEN models_to_try[i]
    ELSE TryModels(i + 1, probes)

\* key: "missing" (no GEMINI_API_KEY secret), "invalid" (empty or not starting with AIza), "valid"
init_gemini(key, probes) ==
    IF key = "missing" THEN NoModel
    ELSE IF key = "invalid" THEN NoModel
    ELSE TryModels(1, probes)

(***************************************************************************)
(* @st.cache_resource on init_gemini: the body runs on the first call of a *)
(* page's function and its result is kept for the life of the process;     *)
(* each page decorates its own init_gemini                                 *)
(***************************************************************************)
Pages == {"chatbot", "insights"}

\* nothing cached yet; probe_runs counts the executions of the probe loop
EmptyCache == [p \in Pages |-> [filled |-> FALSE, value |-> NoModel, probe_runs |-> 0]]

\* the probe loop is reached with a valid key only
ProbeLoopRuns(key) == IF key = "valid" THEN 1 ELSE 0

\* init_gemini without the decorator: the body runs on every call
cache_resource_Uncached(entry, key, probes) ==
    [filled |-> TRUE, value |-> init_gemini(key, probes),
     probe_runs |-> entry.probe_runs + ProbeLoopRuns(key)]

\* a call of the decorated init_gemini: the entry of its cache after the call
cache_resource(entry, key, probes) ==
    IF entry.filled THEN entry
    ELSE [filled |-> TRUE, value |-> init_gemini(key, probes),
          probe_runs |-> entry.probe_runs + ProbeLoopRuns(key)]

(***************************************************************************)
(* Markers that open the messages shown to the user (emoji in the source)  *)
(***************************************************************************)
CheckMark == "[check-mark]"
CrossMark == "[cross-mark]"
WarningSign == "[warning-sign]"
ResetSign == "[reset-sign]"

(***************************************************************************)
(* generate_chat_response                                                  *)
(***************************************************************************)
\* number of trailing messages serialized into the prompt
HistoryWindow == 6
\* longest diagnostic copied into an error reply
ErrorTextLimit == 100

Msg(role, content) == [role |-> role, content |-> content]

\* history_text: one "Role: content\n" line per message of chat_history[-6:]
RECURSIVE HistoryText(_)
HistoryText(msgs) ==
    IF msgs = <<>> THEN <<>>
    ELSE << [role |-> IF Head(msgs).role = "user" THEN "User" ELSE "Assistant",
             content |-> Head(msgs).content] >> \o HistoryText(Tail(msgs))

\* the prompt handed to generate_content, by its variable parts
SystemPrompt(user_message, country_context, history, country) ==
    [country_context |-> country_context,
     history_text |-> HistoryText(SliceLast(history, HistoryWindow)),
     current_country |-> country,
     user_message |-> user_message]

\* what generate_content can do: raise with a message, or answer a text
Completions ==
    {[raised |-> TRUE,  text |-> <<"429 quota exceeded">>],
     [raised |-> FALSE, text |-> <<" ", "Here is what I know.", "\n">>]}

generate_chat_response(model, user_message, country_context, history, completion) ==
    IF model = NoModel
    THEN <<WarningSign, " Gemini AI is not available. Please check your API key configuration.">>
    ELSE IF completion.raised
    THEN <<CrossMark, " Sorry, I encountered an error: ">> \o SliceFirst(completion.text, ErrorTextLimit)
    ELSE Strip(completion.text)

\* a call made with the history as it was before the user message was appended
CompletionCalls_BeforeAppend(model, user_message, country_context, history, country) ==
    IF model = NoModel THEN <<>>
    ELSE << SystemPrompt(user_message, country_context,
                         SubSeq(history, 1, Len(history) - 1), country) >>

\* the completion calls generate_chat_response makes: none without a model
CompletionCalls(model, user_message, country_context, history, country) ==
    IF model = NoModel THEN <<>>
    ELSE << SystemPrompt(user_message, country_context, history, country) >>

(***************************************************************************)
(* Messages the handlers append                                            *)
(***************************************************************************)
SwitchedMsg(name) ==
    Msg("assistant", <<CheckMark, " Switched to ">> \o name \o <<"! What would you like to know?">>)
NotFoundMsg(name) ==
    Msg("assistant", <<CrossMark, " Could not find data for '">> \o name \o <<"'. Please try another country.">>)
SwitchedUSAMsg ==
    Msg("assistant", <<CheckMark, " Switched to United States! ", "US-flag", " What would you like to know about the USA?">>)
SwitchedJapanMsg ==
    Msg("assistant", <<CheckMark, " Switched to Japan! ", "JP-flag", " What would you like to know about Japan?">>)
ResetMsg == Msg("assistant", <<ResetSign, " Reset to United States. What would you like to know?">>)
help_text == <<"Available Commands: switch to [country], help. You can ask about: ...">>
HelpMsg_AsUser == Msg("user", help_text)
HelpMsg == Msg("assistant", help_text)
PromptCountryMsg ==
    Msg("assistant", <<"Please use the sidebar to select a country, or type: switch to [country name]">>)
InfoMsg(data) ==
    Msg("assistant", <<"Current Country Information:">> \o get_country_context(data))

(***************************************************************************)
(* Inputs of the session specification                                     *)
(***************************************************************************)
SwitchToJapanInput == SwitchToPrefix \o <<"j","a","p","a","n">>
SwitchToAtlantisInput == <<"S","w","i","t","c","h"," ","T","o"," ">> \o <<"a","t","l","a","n","t","i","s">>
HelpInput == <<" ", " ">> \o <<"H","e","l","p">> \o <<" ", " ">>
HiInput == <<"H","i","!">>

\* what the user types into the chat box
ChatInputs ==
    {SwitchToJapanInput, SwitchToAtlantisInput, SwitchToPrefix, HelpInput, WhatCanYouDo, NewCountry, HiInput}

\* what the user types into the sidebar's custom-country box
CustomInputs == {<<>>, France, Atlantis}

SwitchToFranceQuestion == <<"S","w","i","t","c","h"," ","t","o"," ">> \o France

suggested_questions ==
    << <<"What's the capital?">>, <<"Tell me about the culture">>, <<"Best time to visit?">>,
       <<"Popular local foods?">>, <<"Major tourist attractions?">>,
       <<"What language do they speak?">>, <<"Tell me about the history">>,
       <<"What is the currency?">>, SwitchToFranceQuestion, <<"Help me plan a trip">> >>

\* the suggested-question buttons the model clicks
ClickedQuestions == {1, 9}

\* outcomes of the start-up probes the model starts from
InitKeys == {"missing", "valid"}
InitProbes == {[i \in 1..4 |-> "raises"], [i \in 1..4 |-> IF i = 1 THEN "empty" ELSE "text"]}

(***************************************************************************)
(* Trace of the action being handled (observation only)                    *)
(***************************************************************************)
Trace(op, user_input, cmd, fetch_calls, completion_calls) ==
    [op |-> op, user_input |-> user_input,
     command_type |-> cmd.command_type, command_data |-> cmd.command_data,
     fetch_calls |-> fetch_calls, completion_calls |-> completion_calls]

NoCmd == [command_type |-> "", command_data |-> NoneStr]

FetchCall(country_name, result, where) ==
    [country_name |-> country_name, found |-> Truthy(result), where |-> where]

(***************************************************************************)
(* Session state initialization and the script's first run                 *)
(***************************************************************************)
Init ==
    /\ chat_history = <<>>
    /\ current_country = UnitedStates
    /\ country_data = None
    /\ chat_started = FALSE
    /\ \E key \in InitKeys, probes \in InitProbes :
         /\ resource_cache = [EmptyCache EXCEPT !["chatbot"] = cache_resource(@, key, probes)]
         /\ gemini_model = resource_cache["chatbot"].value
    /\ pc = "render"
    /\ last = Trace("start", <<>>, NoCmd, <<>>, <<>>)

(***************************************************************************)
(* main(): the rest of a script run after the widget handlers: the welcome *)
(* banner and the country-data initialization at the end of the page       *)
(***************************************************************************)
Render ==
    /\ pc = "render"
    /\ chat_started' = IF chat_history = <<>> /\ ~chat_started THEN TRUE ELSE chat_started
    /\ IF ~Truthy(country_data)
       THEN \E response \in Responses(current_country) :
              \E data \in {fetch_country_data(current_country, response)} :
              /\ country_data' = data
              /\ last' = [last EXCEPT !.fetch_calls =
                            Append(@, FetchCall(current_country, data, "render"))]
       ELSE UNCHANGED <<country_data, last>>
    /\ pc' = "idle"
    /\ UNCHANGED <<chat_history, current_country, gemini_model, resource_cache>>

(***************************************************************************)
(* main(): chat input, the message a switch command appends                *)
(***************************************************************************)
AppendSwitchOutcome_SilentOnNotFound(history, name, data) ==
    IF Truthy(data) THEN Append(history, SwitchedMsg(name)) ELSE history

AppendSwitchOutcome(history, name, data) ==
    IF Truthy(data) THEN Append(history, SwitchedMsg(name))
    ELSE Append(history, NotFoundMsg(name))

(***************************************************************************)
(* main(): chat input, the record a plain message is answered from: the    *)
(* one of the session, or the one fetched now when the session has none    *)
(***************************************************************************)
LazyCountryData_AlwaysFetched(data, fetched) == fetched

LazyCountryData(data, fetched) == IF ~Truthy(data) THEN fetched ELSE data

(***************************************************************************)
(* main(): chat input                                                      *)
(***************************************************************************)
ChatSubmit(user_input) ==
    /\ pc = "idle"
    /\ user_input # <<>>
    /\ \E cmd \in {handle_special_command(user_input)} :
       IF cmd.command_type = "change_country" THEN
           \E response \in Responses(cmd.command_data) :
             \E data \in {fetch_country_data(cmd.command_data, response)} :
             /\ current_country' = cmd.command_data
             /\ country_data' = data
             /\ chat_history' = AppendSwitchOutcome(chat_history, cmd.command_data, data)
             /\ last' = Trace("chat", user_input, cmd,
                              <<FetchCall(cmd.command_data, data, "handler")>>, <<>>)
       ELSE IF cmd.command_type = "show_help" THEN
           /\ chat_history' = Append(chat_history, HelpMsg)
           /\ last' = Trace("chat", user_input, cmd, <<>>, <<>>)
           /\ UNCHANGED <<current_country, country_data>>
       ELSE IF cmd.command_type = "prompt_country" THEN
           /\ chat_history' = Append(chat_history, PromptCountryMsg)
           /\ last' = Trace("chat", user_input, cmd, <<>>, <<>>)
           /\ UNCHANGED <<current_country, country_data>>
       ELSE
           \E response \in Responses(current_country), completion \in Completions :
             LET history1 == Append(chat_history, Msg("user", user_input))
                 fetched == fetch_country_data(current_country, response)
                 data == LazyCountryData(country_data, fetched)
                 country_context == get_country_context(data)
                 reply == generate_chat_response(gemini_model, user_input, country_context,
                                                 history1, completion)
             IN
             /\ country_data' = data
             /\ chat_history' = Append(history1, Msg("assistant", reply))
             /\ last' = Trace("chat", user_input, cmd,
                              IF ~Truthy(country_data)
                              THEN <<FetchCall(current_country, fetched, "handler")>> ELSE <<>>,
                              CompletionCalls(gemini_model, user_input, country_context,
                                              history1, current_country))
             /\ UNCHANGED current_country
    /\ pc' = "render"
    /\ UNCHANGED <<chat_started, gemini_model, resource_cache>>

(***************************************************************************)
(* main(): sidebar buttons                                                 *)
(***************************************************************************)
\* a button that sets the name and appends its message but fetches nothing
QuickSwitch_KeepsRecord(op, country_name, msg) ==
    /\ pc = "idle"
    /\ current_country' = country_name
    /\ chat_history' = Append(chat_history, msg)
    /\ last' = Trace(op, <<>>, NoCmd, <<>>, <<>>)
    /\ pc' = "render"
    /\ UNCHANGED <<country_data, chat_started, gemini_model, resource_cache>>

\* the USA, Japan and Reset Country buttons: set the name, fetch, append msg
QuickSwitch(op, country_name, msg) ==
    /\ pc = "idle"
    /\ \E response \in Responses(country_name) :
         \E data \in {fetch_country_data(country_name, response)} :
         /\ current_country' = country_name
         /\ country_data' = data
         /\ chat_history' = Append(chat_history, msg)
         /\ last' = Trace(op, <<>>, NoCmd, <<FetchCall(country_name, data, "handler")>>, <<>>)
    /\ pc' = "render"
    /\ UNCHANGED <<chat_started, gemini_model, resource_cache>>

LoadCountryClick(custom_country) ==
    /\ pc = "idle"
    /\ IF custom_country # <<>> THEN
           \E response \in Responses(custom_country) :
             \E data \in {fetch_country_data(custom_country, response)} :
             /\ current_country' = custom_country
             /\ country_data' = data
             /\ chat_history' = Append(chat_history,
                                  IF Truthy(data) THEN SwitchedMsg(custom_country)
                                  ELSE NotFoundMsg(custom_country))
             /\ last' = Trace("load", custom_country, NoCmd,
                              <<FetchCall(custom_country, data, "handler")>>, <<>>)
       ELSE
           /\ last' = Trace("load", custom_country, NoCmd, <<>>, <<>>)
           /\ UNCHANGED <<current_country, country_data, chat_history>>
    /\ pc' = "render"
    /\ UNCHANGED <<chat_started, gemini_model, resource_cache>>

ShowInfoClick ==
    /\ pc = "idle"
    /\ IF Truthy(country_data)
       THEN chat_history' = Append(chat_history, InfoMsg(country_data))
       ELSE UNCHANGED chat_history
    /\ last' = Trace("info", <<>>, NoCmd, <<>>, <<>>)
    /\ pc' = "render"
    /\ UNCHANGED <<current_country, country_data, chat_started, gemini_model, resource_cache>>

\* Clear Chat with a slip: removing only the last message; also resetting the country
ClearChatClick_PopsLast ==
    /\ pc = "idle"
    /\ chat_history' = SubSeq(chat_history, 1, Len(chat_history) - 1)
    /\ chat_started' = FALSE
    /\ last' = Trace("clear", <<>>, NoCmd, <<>>, <<>>)
    /\ pc' = "render"
    /\ UNCHANGED <<current_country, country_data, gemini_model, resource_cache>>

ClearChatClick_ResetsCountry ==
    /\ pc = "idle"
    /\ chat_history' = <<>>
    /\ chat_started' = FALSE
    /\ current_country' = UnitedStates
    /\ country_data' = None
    /\ last' = Trace("clear", <<>>, NoCmd, <<>>, <<>>)
    /\ pc' = "render"
    /\ UNCHANGED <<gemini_model, resource_cache>>

ClearChatClick ==
    /\ pc = "idle"
    /\ chat_history' = <<>>
    /\ chat_started' = FALSE
    /\ last' = Trace("clear", <<>>, NoCmd, <<>>, <<>>)
    /\ pc' = "render"
    /\ UNCHANGED <<current_country, country_data, gemini_model, resource_cache>>

(***************************************************************************)
(* main(): suggested-question buttons                                      *)
(***************************************************************************)
\* a click handled like typed input: a question that reads as a switch
\* command switches the country
SuggestedQuestionClick_Classified(q) ==
    /\ pc = "idle"
    /\ \E cmd \in {handle_special_command(suggested_questions[q])} :
         IF cmd.command_type = "change_country" THEN
             \E response \in Responses(cmd.command_data) :
               \E data \in {fetch_country_data(cmd.command_data, response)} :
               /\ current_country' = cmd.command_data
               /\ country_data' = data
               /\ chat_history' = AppendSwitchOutcome(chat_history, cmd.command_data, data)
               /\ last' = Trace("question", suggested_questions[q], NoCmd,
                                <<FetchCall(cmd.command_data, data, "handler")>>, <<>>)
         ELSE
             /\ chat_history' = Append(chat_history, Msg("user", suggested_questions[q]))
             /\ last' = Trace("question", suggested_questions[q], NoCmd, <<>>, <<>>)
             /\ UNCHANGED <<current_country, country_data>>
    /\ pc' = "render"
    /\ UNCHANGED <<chat_started, gemini_model, resource_cache>>

SuggestedQuestionClick(q) ==
    /\ pc = "idle"
    /\ \E completion \in Completions :
         LET question == suggested_questions[q]
             history1 == Append(chat_history, Msg("user", question))
             country_context == get_country_context(country_data)
             reply == generate_chat_response(gemini_model, question, country_context,
                                             history1, completion)
         IN
         IF Truthy(country_data) THEN
             /\ chat_history' = Append(history1, Msg("assistant", reply))
             /\ last' = Trace("question", question, NoCmd, <<>>,
                              CompletionCalls(gemini_model, question, country_context,
                                              history1, current_country))
         ELSE
             /\ chat_history' = history1
             /\ last' = Trace("question", question, NoCmd, <<>>, <<>>)
    /\ pc' = "render"
    /\ UNCHANGED <<current_country, country_data, chat_started, gemini_model, resource_cache>>

(***************************************************************************)
(* The session: any sequence of user actions, each followed by the rest of *)
(* the script run                                                          *)
(***************************************************************************)
WithinBound == Len(chat_history') <= MaxHist

ChatInput == \E user_input \in ChatInputs : ChatSubmit(user_input) /\ WithinBound

ClickUSA == QuickSwitch("usa", UnitedStates, SwitchedUSAMsg) /\ WithinBound

ClickJapan == QuickSwitch("japan", Japan, SwitchedJapanMsg) /\ WithinBound

ResetCountry == QuickSwitch("reset", UnitedStates, ResetMsg) /\ WithinBound

LoadCountry == \E custom_country \in CustomInputs : LoadCountryClick(custom_country) /\ WithinBound

ShowInfo == ShowInfoClick /\ WithinBound

ClearChat == ClearChatClick /\ WithinBound

SuggestedQuestion == \E q \in ClickedQuestions : SuggestedQuestionClick(q) /\ WithinBound

Next ==
    \/ Render
    \/ ChatInput
    \/ ClickUSA
    \/ ClickJapan
    \/ LoadCountry
    \/ ShowInfo
    \/ ClearChat
    \/ ResetCountry
    \/ SuggestedQuestion

Spec == Init /\ [][Next]_vars

(***************************************************************************)
(* Properties of the session                                               *)
(***************************************************************************)
IsPrefix(a, b) == Len(a) <= Len(b) /\ SubSeq(b, 1, Len(a)) = a

\* a step that is the handler of the user action recorded in last'
HandlerStep(op) == pc = "idle" /\ pc' = "render" /\ last'.op = op

\* the messages a step appends
Appended == SubSeq(chat_history', Len(chat_history) + 1, Len(chat_history'))

\* C1: a switch-country chat command whose fetch yields None leaves the current
\* country name and the current country record as they were before the command.
C1_SwitchNotFoundLeavesState ==
    [][(/\ HandlerStep("chat")
        /\ last'.command_type = "change_country"
        /\ ~last'.fetch_calls[1].found)
       => (current_country' = current_country /\ country_data' = country_data)]_vars

C3_AppendOrClear ==
    [][\/ IsPrefix(chat_history, chat_history')
       \/ (HandlerStep("clear") /\ chat_history' = <<>>)]_vars

\* a message has been appended to a list that already held one
C3_Witness == pc = "render" /\ last.op = "load" /\ Len(chat_history) = 2

WindowMsgs == {Msg("user", suggested_questions[1]), HelpMsg, PromptCountryMsg}

SeqsUpTo(S, n) == UNION {[1..k -> S] : k \in 0..n}

InitWindow ==
    /\ chat_history \in SeqsUpTo(WindowMsgs, MaxLen)
    /\ current_country = UnitedStates
    /\ country_data \in {None, fetch_country_data(UnitedStates,
                            Response(FALSE, 200, "array", <<ServiceObject(UnitedStates)>>))}
    /\ chat_started = TRUE
    /\ \E key \in InitKeys, probes \in InitProbes :
         /\ resource_cache = [EmptyCache EXCEPT !["chatbot"] = cache_resource(@, key, probes)]
         /\ gemini_model = resource_cache["chatbot"].value
    /\ pc = "idle"
    /\ last = Trace("start", <<>>, NoCmd, <<>>, <<>>)

WindowChat == last.op = "start" /\ ChatSubmit(HiInput)

WindowQuestion == last.op = "start" /\ SuggestedQuestionClick(1)

NextWindow ==
    \/ WindowChat
    \/ WindowQuestion
    \/ Render

SpecWindow == InitWindow /\ [][NextWindow]_vars

\* the history handed to generate_chat_response by the action recorded in last:
\* the list as it is now, less the reply appended after the call
HistoryAtCall == SubSeq(chat_history, 1, Len(chat_history) - 1)

\* the last k messages of h, oldest first, as "Role: content" lines
LastLines(h, k) ==
    [i \in 1..k |-> [role |-> IF h[Len(h) - k + i].role = "user" THEN "User" ELSE "Assistant",
                     content |-> h[Len(h) - k + i].content]]

\* C4: for a history of any length, the window serialized into the prompt holds
\* at most 6 messages: exactly the last min(6, length) messages, oldest first.
C4_WindowIsLastSix ==
    (pc = "render" /\ last.completion_calls # <<>>)
    => \A c \in 1..Len(last.completion_calls) :
         LET window == last.completion_calls[c].history_text
             h == HistoryAtCall
         IN /\ Len(window) <= 6
            /\ Len(window) = Min(6, Len(h))
            /\ window = LastLines(h, Min(6, Len(h)))

\* a call made with a history longer than the window
C4_Witness ==
    /\ pc = "render" /\ last.completion_calls # <<>>
    /\ Len(HistoryAtCall) > 6
    /\ Len(last.completion_calls[1].history_text) = 6
    /\ HistoryAtCall[1] # HistoryAtCall[Len(HistoryAtCall) - 5]

(***************************************************************************)
(* Classification: one chat submission, its text built from tokens, in a   *)
(* session that has just started                                           *)
(***************************************************************************)
SwitchToMixed == <<"S","w","i","t","c","h"," ","T","o"," ">>
CompareWithPrefix == <<"c","o","m","p","a","r","e"," ","w","i","t","h"," ">>
FranceLower == <<"f","r","a","n","c","e">>

Tokens == {SwitchToPrefix, SwitchToMixed, CompareWithPrefix, <<" ">>, FranceLower, Help}

RECURSIVE Concat(_)
Concat(parts) == IF parts = <<>> THEN <<>> ELSE Head(parts) \o Concat(Tail(parts))

TokenInputs == {Concat(parts) : parts \in UNION {[1..k -> Tokens] : k \in 1..MaxTokens}}

WholeInputs ==
    ChatInputs
    \cup {NewCountry, ChangeCountry, DifferentCountry, Help, WhatCanYouDo, Commands}
    \cup {<<"C","h","a","n","g","e"," ","C","o","u","n","t","r","y"," ">>,
          <<"\t">> \o Commands \o <<"\n">>,
          Help \o <<"f","u","l">>,
          <<"h","e","l","p"," ","m","e">>,
          <<"t","e","l","l"," ","m","e"," ","a","b","o","u","t"," ","c","u","l","t","u","r","e">>}

ClassifyInputs == TokenInputs \cup WholeInputs

InitClassify ==
    /\ chat_history = <<>>
    /\ current_country = UnitedStates
    /\ country_data \in {None, fetch_country_data(UnitedStates,
                            Response(FALSE, 200, "array", <<ServiceObject(UnitedStates)>>))}
    /\ chat_started = TRUE
    /\ \E key \in InitKeys, probes \in InitProbes :
         /\ resource_cache = [EmptyCache EXCEPT !["chatbot"] = cache_resource(@, key, probes)]
         /\ gemini_model = resource_cache["chatbot"].value
    /\ pc = "idle"
    /\ last = Trace("start", <<>>, NoCmd, <<>>, <<>>)

ClassifyChat == last.op = "start" /\ \E user_input \in ClassifyInputs : ChatSubmit(user_input)

NextClassify ==
    \/ ClassifyChat
    \/ Render

SpecClassify == InitClassify /\ [][NextClassify]_vars

\* the chat submission recorded in last has been handled
ChatHandled == pc = "render" /\ last.op = "chat"

\* the submitted text, trimmed and lower-cased
Trimmed == Strip(Lower(last.user_input))

\* what follows the first n characters of s
After(s, n) == SubSeq(s, n + 1, Len(s))

\* C6: an input that, trimmed and lower-cased, starts with "switch to " is a
\* switch-country command whose country name is the remainder after that one
\* leading prefix, title-cased (the remainder taken without surrounding spaces).
C6_SwitchNameIsRemainder ==
    (ChatHandled /\ StartsWith(Trimmed, SwitchToPrefix))
    => /\ last.command_type = "change_country"
       /\ last.command_data = Title(Strip(After(Trimmed, Len(SwitchToPrefix))))

\* the prefix followed by nothing but whitespace
EmptyRemainder ==
    LET t == LStrip(Lower(last.user_input)) IN
    /\ StartsWith(t, SwitchToPrefix)
    /\ Strip(After(t, Len(SwitchToPrefix))) = <<>>

\* C7: the prefix with an empty remainder ("switch to ") is a switch-country
\* command with the empty string as name; the empty name is fetched and the
\* user is shown the not-found message, not an AI reply to a plain message.
C7_EmptyRemainderIsNotFound ==
    (ChatHandled /\ EmptyRemainder)
    => /\ last.command_type = "change_country"
       /\ last.command_data = <<>>
       /\ Len(last.fetch_calls) = 1 /\ last.fetch_calls[1].country_name = <<>>
       /\ last.completion_calls = <<>>
       /\ chat_history[Len(chat_history)] = NotFoundMsg(<<>>)

\* C8: an input that, trimmed and lower-cased, starts with "compare with " is
\* given a compare intent carrying the title-cased remainder, not the
\* plain-message intent.
C8_CompareIsAnIntent ==
    (/\ ChatHandled
     /\ StartsWith(Trimmed, CompareWithPrefix)
     /\ ~StartsWith(Trimmed, SwitchToPrefix))
    => /\ last.command_type # "normal_message"
       /\ last.command_data = Title(Strip(After(Trimmed, Len(CompareWithPrefix))))

\* C9: an input that starts with no command prefix is prompt-for-country exactly
\* when, trimmed and lower-cased, it is one of the three country phrases, help
\* exactly when it is one of the three help phrases, and a plain message in every
\* other case, whose user message records the raw input unchanged.
C9_PhrasesAndPlain ==
    (/\ ChatHandled
     /\ ~StartsWith(Trimmed, SwitchToPrefix)
     /\ ~StartsWith(Trimmed, CompareWithPrefix))
    => LET isPrompt == Trimmed \in {ChangeCountry, NewCountry, DifferentCountry}
           isHelp == Trimmed \in {Help, WhatCanYouDo, Commands}
       IN /\ (last.command_type = "prompt_country") = isPrompt
          /\ (last.command_type = "show_help") = isHelp
          /\ (~isPrompt /\ ~isHelp)
             => /\ last.command_type = "normal_message"
                /\ Len(chat_history) = 2
                /\ chat_history[1] = Msg("user", last.user_input)
                /\ chat_history[2].role = "assistant"

\* the padded, mixed-case input "  Help  " has been handled as help
C9_Witness ==
    /\ ChatHandled /\ last.user_input = HelpInput /\ last.command_type = "show_help"
    /\ chat_history = <<HelpMsg>>

\* C10: handling a help or prompt-for-country input appends exactly one
\* message, by the assistant and with a fixed text, appends no user message,
\* makes no country fetch and no completion call in the handler, and leaves the
\* current country name and record unchanged.
C10_CannedReplyOnly ==
    [][(HandlerStep("chat") /\ last'.command_type \in {"show_help", "prompt_country"})
       => (/\ IsPrefix(chat_history, chat_history')
           /\ Len(Appended) = 1
           /\ Appended[1].role = "assistant"
           /\ Appended[1].content =
                (IF last'.command_type = "show_help"
                 THEN <<"Available Commands: switch to [country], help. You can ask about: ...">>
                 ELSE <<"Please use the sidebar to select a country, or type: switch to [country name]">>)
           /\ last'.fetch_calls = <<>>
           /\ last'.completion_calls = <<>>
           /\ current_country' = current_country
           /\ country_data' = country_data)]_vars

\* a help input has been handled in a session that already held a message and
\* whose record was not loaded
C10_Witness ==
    /\ pc = "render" /\ last.op = "chat" /\ last.command_type = "show_help"
    /\ Len(chat_history) = 2 /\ chat_history[2] = HelpMsg
    /\ ~Truthy(country_data)

(***************************************************************************)
(* Properties of the plain-message handler                                 *)
(***************************************************************************)
\* C11: a plain message appends the user message, fetches the current country
\* if and only if the session has no record, builds the context from the record
\* that results, calls the assistant with a history that already holds the
\* user message, and appends the reply: exactly two messages are appended, user
\* then assistant, and the current country name does not change.
C11_PlainMessageOrder ==
    [][(HandlerStep("chat") /\ last'.command_type = "normal_message")
       => (/\ IsPrefix(chat_history, chat_history')
           /\ Len(Appended) = 2
           /\ Appended[1] = Msg("user", last'.user_input)
           /\ Appended[2].role = "assistant"
           /\ current_country' = current_country
           /\ Truthy(country_data)
                => (last'.fetch_calls = <<>> /\ country_data' = country_data)
           /\ ~Truthy(country_data)
                => (/\ Len(last'.fetch_calls) = 1
                    /\ last'.fetch_calls[1].country_name = current_country
                    /\ last'.fetch_calls[1].where = "handler"
                    /\ last'.fetch_calls[1].found = Truthy(country_data'))
           /\ Len(last'.completion_calls) = (IF gemini_model = NoModel THEN 0 ELSE 1)
           /\ \A i \in 1..Len(last'.completion_calls) :
                LET call == last'.completion_calls[i] IN
                /\ call.country_context = get_country_context(country_data')
                /\ call.history_text # <<>>
                /\ call.history_text[Len(call.history_text)]
                     = [role |-> "User", content |-> last'.user_input]
                /\ call.user_message = last'.user_input)]_vars

\* a plain message was handled in a session without a record: the fetch found
\* the country and the assistant was called with the context of that record
C11_Witness ==
    /\ pc = "render" /\ last.op = "chat" /\ last.command_type = "normal_message"
    /\ Len(last.fetch_calls) = 1 /\ last.fetch_calls[1].found
    /\ Len(last.completion_calls) = 1
    /\ last.completion_calls[1].country_context = get_country_context(country_data)
    /\ Len(chat_history) = 2

(***************************************************************************)
(* Properties of a whole user action: the handler and the rerun after it   *)
(***************************************************************************)
\* C18: a single user action, the page re-render it causes included, makes at
\* most one country fetch and at most one completion call; a switch command
\* whose fetch fails is not followed by a second fetch.
C18_OneFetchOneCompletion ==
    pc = "idle" => (Len(last.fetch_calls) <= 1 /\ Len(last.completion_calls) <= 1)

\* a step that switches the country: the chat command, the USA, Japan and
\* Reset Country buttons, and Load Country with a name typed in
SwitchStep ==
    \/ HandlerStep("chat") /\ last'.command_type = "change_country"
    \/ HandlerStep("usa") \/ HandlerStep("japan") \/ HandlerStep("reset")
    \/ HandlerStep("load") /\ last'.user_input # <<>>

\* C19: every action that switches the country appends exactly one assistant
\* message; it is a success confirmation only if the fetch returned a record;
\* when the fetch found nothing it is an error message and the record of the
\* session is not replaced by None.
C19_SwitchMessageMatchesFetch ==
    [][SwitchStep
       => (/\ IsPrefix(chat_history, chat_history')
           /\ Len(Appended) = 1
           /\ Appended[1].role = "assistant"
           /\ Appended[1].content[1] \in {CheckMark, ResetSign}
                => last'.fetch_calls[1].found
           /\ ~last'.fetch_calls[1].found
                => (/\ Appended[1].content[1] = CrossMark
                    /\ Truthy(country_data) => Truthy(country_data')))]_vars

\* C20: once a user action is fully handled, a non-empty message list does not
\* end with a user message: each user message appended by a chat submission or
\* a suggested-question click is followed by an assistant message of the same
\* action, also when the session has no record.
C20_NeverEndsWithUserMessage ==
    (pc = "idle" /\ chat_history # <<>>)
        => chat_history[Len(chat_history)].role # "user"

(***************************************************************************)
(* Properties of the context handed to the assistant                       *)
(***************************************************************************)
\* value occurs in ctx as a run of consecutive atoms
Occurs(ctx, value) ==
    \E i \in 1..(Len(ctx) - Len(value) + 1) : SubSeq(ctx, i, i + Len(value) - 1) = value

\* label occurs in ctx and value is the text right after it
Follows(ctx, label, value) == Occurs(ctx, <<label>> \o value)

\* the fields the context of a record shows, timezones apart
ListsCommonFields(ctx, d) ==
    /\ Follows(ctx, "Current Country: ", d.name \o <<" ">> \o d.flag)
    /\ Follows(ctx, "- Official Name: ", d.official_name)
    /\ Follows(ctx, "- Capital: ", d.capital)
    /\ Follows(ctx, "- Region: ", d.region \o <<" (">> \o d.subregion \o <<")">>)
    /\ Follows(ctx, "- Population: ", format_number(d.population))
    /\ Follows(ctx, "- Area: ", format_number(d.area) \o <<" km2">>)
    /\ Follows(ctx, "- Languages: ", Join(d.languages, <<", ">>))
    /\ Follows(ctx, "- Currencies: ", Join(d.currencies, <<", ">>))
    /\ Follows(ctx, "- UN Member: ", YesNo(d.un_member))

\* a state right after a handler that called the assistant
AssistantCalled == pc = "render" /\ last.completion_calls # <<>>

AllKeys == {"missing", "invalid", "valid"}
AllProbes == [1..Len(models_to_try) -> ProbeResults]

\* the process has started and no page has been opened yet
InitCache ==
    /\ chat_history = <<>>
    /\ current_country = UnitedStates
    /\ country_data = None
    /\ chat_started = FALSE
    /\ gemini_model = NoModel
    /\ resource_cache = EmptyCache
    /\ pc = "load"
    /\ last = Trace("start", <<>>, NoCmd, <<>>, <<>>)

\* what a run's call of init_gemini did: answered from the cache, or ran the
\* body with the key and the probe outcomes the environment gave it
RunTrace(page, cache_hit, key, probes) ==
    [op |-> "run", page |-> page, cache_hit |-> cache_hit, key |-> key, probes |-> probes,
     probed |-> IF cache_hit \/ key # "valid" THEN <<>> ELSE ProbedModels(1, probes)]

\* a script run of a page reaches gemini_model = init_gemini()
RunPage(page, keys, outcomes) ==
    /\ pc \in {"load", "idle"}
    /\ \E key \in keys, probes \in outcomes :
         /\ resource_cache' = [resource_cache EXCEPT ![page] = cache_resource(@, key, probes)]
         /\ last' = IF resource_cache[page].filled
                    THEN RunTrace(page, TRUE, "", <<>>)
                    ELSE RunTrace(page, FALSE, key, probes)
    /\ gemini_model' = IF page = "chatbot" THEN resource_cache'[page].value ELSE gemini_model
    /\ pc' = IF page = "chatbot" /\ pc = "load" THEN "render" ELSE pc
    /\ UNCHANGED <<chat_history, current_country, country_data, chat_started>>

ProbeChatbot == RunPage("chatbot", AllKeys, AllProbes)

ProbeInsights == RunPage("insights", AllKeys, AllProbes)

NextProbe ==
    \/ ProbeChatbot
    \/ ProbeInsights
    \/ Render

SpecProbe == InitCache /\ [][NextProbe]_vars

\* the last step ran the probe loop
ProbeLoopRan == last.op = "run" /\ ~last.cache_hit /\ last.key = "valid"

\* C13: the probe loop tries the identifiers of the fixed list strictly in
\* order and stops at the first whose probe answers a non-empty text: that one
\* is selected and none after it is probed; an identifier that raises or
\* answers an empty text is skipped; no model is selected exactly when all four
\* fail; at most four probes are made.
C13_FirstWorkingModel ==
    ProbeLoopRan
    => LET probed == last.probed
           n == Len(probed)
           model == resource_cache[last.page].value
       IN /\ n >= 1 /\ n <= 4
          /\ \A i \in 1..n : probed[i] = models_to_try[i]
          /\ \A i \in 1..(n - 1) : last.probes[i] \in {"raises", "empty"}
          /\ model # NoModel => (model = probed[n] /\ last.probes[n] = "text")
          /\ model = NoModel <=> (\A i \in 1..4 : last.probes[i] # "text")
          /\ model = NoModel => n = 4

\* the first identifier raised, the second answered an empty text, the third
\* was selected and the fourth was not probed
C13_Witness ==
    /\ ProbeLoopRan
    /\ last.probes = <<"raises", "empty", "text", "text">>
    /\ last.probed = <<"gemini-1.5-flash", "gemini-1.0-pro", "gemini-pro">>
    /\ resource_cache[last.page].value = "gemini-pro"

(***************************************************************************)
(* A process serving both pages: script runs, chat requests and reruns     *)
(***************************************************************************)
RunChatbot == RunPage("chatbot", InitKeys, InitProbes)

RunInsights == RunPage("insights", InitKeys, InitProbes)

CacheChat == ChatSubmit(HiInput) /\ WithinBound

NextCache ==
    \/ RunChatbot
    \/ RunInsights
    \/ CacheChat
    \/ ClearChat
    \/ Render

SpecCache == InitCache /\ [][NextCache]_vars

Insights_fetch_country_data(country_name, response) ==
    LET record == fetch_country_data(country_name, response) IN
    IF record = None THEN None
    ELSE [k \in (DOMAIN record \ {"independent", "un_member"}) |-> record[k]]
         @@ [coordinates |-> Get(response.json[1], "latlng", <<0, 0>>)]

\* shapes of the first element: each field absent, null, empty or filled
NameShapes ==
    <<EmptyDict, [name |-> None], [name |-> [common |-> France, official |-> <<"French Republic">>]]>>
CapitalShapes ==
    <<EmptyDict, [capital |-> None], [capital |-> <<>>], [capital |-> << <<"Paris">> >>]>>
PopulationShapes == <<EmptyDict, [population |-> None], [population |-> 67391582]>>
AreaShapes == <<EmptyDict, [area |-> None], [area |-> 551695]>>
LanguagesShapes ==
    <<EmptyDict, [languages |-> None], [languages |-> EmptyDict], [languages |-> [fra |-> <<"French">>]]>>
CurrenciesShapes ==
    <<EmptyDict, [currencies |-> None], [currencies |-> EmptyDict], [currencies |-> [EUR |-> <<"Euro">>]]>>

\* the first element with the n-th name shape, the c-th capital shape, ...
FirstElement(n, c, p, a, l, cu) ==
    NameShapes[n] @@ CapitalShapes[c] @@ PopulationShapes[p] @@ AreaShapes[a]
    @@ LanguagesShapes[l] @@ CurrenciesShapes[cu]
    @@ [timezones |-> << <<"UTC+01:00">> >>, flag |-> <<"FR-flag">>]

\* answers that are no single match: the request raises, a status other than
\* 200 (with any body), 200 with an invalid body, a mapping, an empty list, a
\* list whose first element is null, and 200 with two matches
OtherResponses ==
    <<Response(TRUE, 0, "array", <<>>),
      Response(FALSE, 404, "object", [status |-> 404, message |-> <<"Not Found">>]),
      Response(FALSE, 500, "array", <<ServiceObject(France)>>),
      Response(FALSE, 200, "invalid", <<>>),
      Response(FALSE, 200, "object", EmptyDict),
      Response(FALSE, 200, "object", [message |-> <<"Page Not Found">>]),
      Response(FALSE, 200, "array", <<>>),
      Response(FALSE, 200, "array", <<None>>),
      Response(FALSE, 200, "array", <<ServiceObject(Japan), ServiceObject(France)>>)>>

FetchTrace(op, page, response, result) ==
    [op |-> op, page |-> page, response |-> response, result |-> result]

\* a session about to look France up; the service will answer with response
InitFetch ==
    /\ chat_history = <<>>
    /\ current_country = France
    /\ country_data = None
    /\ chat_started = TRUE
    /\ gemini_model = NoModel
    /\ resource_cache = [EmptyCache EXCEPT !["chatbot"] = cache_resource(@, "missing", <<>>)]
    /\ pc = "idle"
    /\ \/ \E i \in 1..Len(OtherResponses) :
             last = FetchTrace("request", "", OtherResponses[i], None)
       \/ \E n \in 1..Len(NameShapes), c \in 1..Len(CapitalShapes),
             p \in 1..Len(PopulationShapes), a \in 1..Len(AreaShapes),
             l \in 1..Len(LanguagesShapes), cu \in 1..Len(CurrenciesShapes) :
             last = FetchTrace("request", "",
                               Response(FALSE, 200, "array", <<FirstElement(n, c, p, a, l, cu)>>),
                               None)

FetchChatbot ==
    /\ pc = "idle" /\ last.op = "request"
    /\ country_data' = fetch_country_data(current_country, last.response)
    /\ last' = FetchTrace("fetch", "chatbot", last.response, country_data')
    /\ UNCHANGED <<chat_history, current_country, chat_started, gemini_model, resource_cache, pc>>

FetchInsights ==
    /\ pc = "idle" /\ last.op = "request"
    /\ last' = FetchTrace("fetch", "insights", last.response,
                          Insights_fetch_country_data(current_country, last.response))
    /\ UNCHANGED <<chat_history, current_country, country_data, chat_started, gemini_model,
                   resource_cache, pc>>

NextFetch ==
    \/ FetchChatbot
    \/ FetchInsights

SpecFetch == InitFetch /\ [][NextFetch]_vars

Fetched == last.op = "fetch"

\* C15: fetch_country_data returns None for a request that raises, a status
\* other than 200, an empty array and a body that cannot be parsed or indexed;
\* it returns a record only for status 200 with a non-empty array, and builds
\* it from the first element.
C15_NoneOnEveryFailure ==
    Fetched
    => LET r == last.response IN
       /\ (r.raised \/ r.status_code # 200 \/ r.body # "array" \/ r.json = <<>>)
            => last.result = None
       /\ last.result # None
            => (/\ ~r.raised /\ r.status_code = 200 /\ r.body = "array" /\ r.json # <<>>
                /\ last.result.name = Get(Get(r.json[1], "name", EmptyDict), "common", NoneStr)
                /\ last.result.flag = r.json[1].flag)

\* a list of two matches was answered and the record is the first match's
C15_Witness ==
    /\ Fetched /\ last.result # None
    /\ Len(last.response.json) = 2
    /\ last.result.name = Japan

\* C16: every record returned, whatever the shape of the first element (fields
\* absent, null or empty), has population >= 0, area >= 0 and non-empty
\* languages and currencies; an absent field is replaced by 0, resp. ["Unknown"].
C16_RecordDefaults ==
    (Fetched /\ last.result # None)
    => LET country == last.response.json[1]
           record == last.result
       IN /\ ~IsNone(record.population) /\ record.population >= 0
          /\ ~IsNone(record.area) /\ record.area >= 0
          /\ record.languages # <<>> /\ record.currencies # <<>>
          /\ "population" \notin DOMAIN country => record.population = 0
          /\ "area" \notin DOMAIN country => record.area = 0
          /\ "languages" \notin DOMAIN country => record.languages = <<Unknown>>
          /\ "currencies" \notin DOMAIN country => record.currencies = <<Unknown>>

(***************************************************************************)
(* The AI-generation functions of both pages on every outcome of the       *)
(* completion call                                                         *)
(***************************************************************************)
\* longest error text a raising completion call carries in the model
MaxErrorLen == 152

\* longest diagnostic the Insights functions copy into an error reply
InsightsErrorTextLimit == 150

\* Country_Insights.generate_travel_analysis: the prompt is built and the call
\* is made inside try; the text is returned as it is
generate_travel_analysis(model, completion) ==
    IF model = NoModel
    THEN <<WarningSign, " Gemini AI is not available. Please check your API key configuration in Streamlit secrets.">>
    ELSE IF completion.raised
    THEN <<CrossMark, " Error generating analysis: ">>
         \o SliceFirst(completion.text, InsightsErrorTextLimit)
    ELSE completion.text

\* Country_Insights.generate_economic_analysis
generate_economic_analysis(model, completion) ==
    IF model = NoModel
    THEN <<WarningSign, " Gemini AI is not available. Please check your API key configuration.">>
    ELSE IF completion.raised
    THEN <<CrossMark, " Error: ">> \o SliceFirst(completion.text, InsightsErrorTextLimit)
    ELSE completion.text

\* Country_Insights.generate_country_comparison
generate_country_comparison(model, completion) ==
    IF model = NoModel
    THEN <<WarningSign, " Gemini AI is not available.">>
    ELSE IF completion.raised
    THEN <<CrossMark, " Error: ">> \o SliceFirst(completion.text, InsightsErrorTextLimit)
    ELSE completion.text

\* str(e) of n characters
ErrorText(n) == [i \in 1..n |-> "e"]

GenerateTrace(op, function, completion, reply) ==
    [op |-> op, function |-> function, completion |-> completion, reply |-> reply]

\* both pages have been opened; the next completion call will raise with an
\* error text of some length, or answer a text
InitGenerate ==
    /\ chat_history = <<>>
    /\ current_country = UnitedStates
    /\ country_data = fetch_country_data(UnitedStates,
                         Response(FALSE, 200, "array", <<ServiceObject(UnitedStates)>>))
    /\ chat_started = TRUE
    /\ \E key \in InitKeys, probes \in InitProbes :
         \E ikey \in InitKeys, iprobes \in InitProbes :
         /\ resource_cache = [chatbot |-> cache_resource(EmptyCache["chatbot"], key, probes),
                              insights |-> cache_resource(EmptyCache["insights"], ikey, iprobes)]
         /\ gemini_model = resource_cache["chatbot"].value
    /\ pc = "idle"
    /\ \/ \E n \in 0..MaxErrorLen :
            last = GenerateTrace("completion", "", [raised |-> TRUE, text |-> ErrorText(n)], <<>>)
       \/ \E completion \in Completions :
            last = GenerateTrace("completion", "", completion, <<>>)

Generate(function, reply) ==
    /\ pc = "idle" /\ last.op = "completion"
    /\ last' = GenerateTrace("generate", function, last.completion, reply)
    /\ UNCHANGED <<chat_history, current_country, country_data, chat_started, gemini_model,
                   resource_cache, pc>>

ChatReply ==
    Generate("chat", generate_chat_response(gemini_model, HiInput,
                        get_country_context(country_data),
                        <<Msg("user", HiInput)>>, last.completion))

TravelAnalysis ==
    Generate("travel", generate_travel_analysis(resource_cache["insights"].value, last.completion))

EconomicAnalysis ==
    Generate("economic", generate_economic_analysis(resource_cache["insights"].value, last.completion))

CountryComparison ==
    Generate("comparison", generate_country_comparison(resource_cache["insights"].value, last.completion))

NextGenerate ==
    \/ ChatReply
    \/ TravelAnalysis
    \/ EconomicAnalysis
    \/ CountryComparison

SpecGenerate == InitGenerate /\ [][NextGenerate]_vars

\* the function recorded in last returned its failure sentinel
FailedGeneration ==
    /\ last.op = "generate"
    /\ \/ last.completion.raised
       \/ (IF last.function = "chat" THEN gemini_model
           ELSE resource_cache["insights"].value) = NoModel

\* the part of a sentinel after its marker and its fixed text
Diagnostic(reply) == SubSeq(reply, 3, Len(reply))

\* C12 (as stated): each AI-generation function (chat reply, travel analysis,
\* economic analysis, country comparison) returns, when no model is available
\* or the request raises, a sentinel that begins with an error marker and whose
\* diagnostic is at most 100 characters long.
C12_DiagnosticAtMost100 ==
    FailedGeneration
    => (/\ Len(last.reply) >= 2
        /\ last.reply[1] \in {WarningSign, CrossMark}
        /\ Len(Diagnostic(last.reply)) <= 100)

\* C12 (amended): each AI-generation function returns, when no model is
\* available or the request raises, a sentinel that begins with an error
\* marker and whose diagnostic is the start of the error text, at most 100
\* characters long for the chat reply and at most 150 for the travel, economic
\* and comparison analyses.
C12_DiagnosticTruncated ==
    FailedGeneration
    => LET limit == IF last.function = "chat" THEN 100 ELSE 150 IN
       /\ Len(last.reply) >= 2
       /\ last.reply[1] \in {WarningSign, CrossMark}
       /\ Len(Diagnostic(last.reply)) <= limit
       /\ last.reply[1] = CrossMark
            => IsPrefix(Diagnostic(last.reply), last.completion.text)

\* the travel analysis failed with an error text longer than 150 characters
\* and its sentinel carries the first 150
C12_Witness ==
    /\ FailedGeneration /\ last.function = "travel"
    /\ Len(last.completion.text) > 150
    /\ last.reply[1] = CrossMark
    /\ Len(Diagnostic(last.reply)) = 150

(***************************************************************************)
(* Properties of the session state                                         *)
(***************************************************************************)
\* the record a successful fetch for country_name returns
RecordOf(country_name) ==
    fetch_country_data(country_name,
                       Response(FALSE, 200, "array", <<ServiceObject(country_name)>>))

\* C21: in every reachable session state the record is None or the result of a
\* fetch for the current country name, whatever actions led there; the session
\* starts with the name "United States", no record and an empty message list.
C21_RecordIsOfCurrentCountry ==
    /\ Truthy(country_data)
         => (KnownToService(current_country) /\ country_data = RecordOf(current_country))
    /\ (last.op = "start" /\ last.fetch_calls = <<>>)
         => (/\ current_country = UnitedStates
             /\ country_data = None
             /\ chat_history = <<>>)

\* after the Japan button, in a session that held the record of another
\* country, the name is Japan and the record is Japan's
C21_Witness ==
    /\ pc = "idle" /\ last.op = "japan"
    /\ current_country = Japan
    /\ Truthy(country_data) /\ country_data.name = Japan
    /\ Len(chat_history) = 2

(***************************************************************************)
(* Properties of the suggested-question buttons                            *)
(***************************************************************************)
\* C22: a click on a suggested question, "Switch to France" included, is not
\* classified as a command: it leaves the current country name and record
\* unchanged and fetches nothing in its handler; the question is appended as a
\* user message and, when a record is present, sent to the assistant, whose
\* reply is appended.
C22_QuestionIsNeverACommand ==
    [][HandlerStep("question")
       => (/\ current_country' = current_country
           /\ country_data' = country_data
           /\ last'.fetch_calls = <<>>
           /\ \E q \in 1..Len(suggested_questions) : last'.user_input = suggested_questions[q]
           /\ IsPrefix(chat_history, chat_history')
           /\ Len(Appended) >= 1
           /\ Appended[1] = Msg("user", last'.user_input)
           /\ IF Truthy(country_data)
              THEN /\ Len(Appended) = 2
                   /\ Appended[2].role = "assistant"
                   /\ Len(last'.completion_calls) = (IF gemini_model = NoModel THEN 0 ELSE 1)
                   /\ \A i \in 1..Len(last'.completion_calls) :
                        last'.completion_calls[i].user_message = last'.user_input
              ELSE /\ Len(Appended) = 1
                   /\ last'.completion_calls = <<>>)]_vars

\* "Switch to France" was clicked in a session on the United States: it went
\* to the assistant and the session is still on the United States
C22_Witness ==
    /\ pc = "render" /\ last.op = "question"
    /\ last.user_input = SwitchToFranceQuestion
    /\ current_country = UnitedStates /\ Truthy(country_data)
    /\ Len(last.completion_calls) = 1
    /\ last.completion_calls[1].user_message = SwitchToFranceQuestion

(***************************************************************************)
(* Properties of the history handed to the assistant                       *)
(***************************************************************************)
\* C23: whenever the assistant is called for a plain message or a suggested
\* question, the history it is given already ends with that user message: the
\* last line of the serialized window is the latest user message, which the
\* prompt also carries as the message to answer, and at most 5 lines of the
\* window precede it.
C23_WindowEndsWithLatestMessage ==
    AssistantCalled
    => \A c \in 1..Len(last.completion_calls) :
         LET call == last.completion_calls[c]
             window == call.history_text
         IN /\ call.user_message = last.user_input
            /\ HistoryAtCall # <<>>
            /\ HistoryAtCall[Len(HistoryAtCall)] = Msg("user", call.user_message)
            /\ window # <<>>
            /\ window[Len(window)] = [role |-> "User", content |-> call.user_message]
            /\ Len(window) - 1 <= 5

\* a plain message sent in a session that already held six messages or more:
\* the window is full, its last line is the message and five lines precede it
C23_Witness ==
    /\ AssistantCalled /\ last.op = "chat"
    /\ Len(HistoryAtCall) >= 7
    /\ Len(last.completion_calls[1].history_text) = 6
    /\ last.completion_calls[1].history_text[6] = [role |-> "User", content |-> HiInput]
    /\ last.completion_calls[1].history_text[5].role = "Assistant"

(***************************************************************************)
(* Country_Insights main(): the comparison tab                             *)
(***************************************************************************)
\* an error that lists the first name only
MissingCountries_FirstOnly(country1, country1_data, country2, country2_data) ==
    IF ~Truthy(country1_data) THEN <<country1>> ELSE <<>>

\* missing: the entered names whose record is falsy, first then second
MissingCountries(country1, country1_data, country2, country2_data) ==
    (IF ~Truthy(country1_data) THEN <<country1>> ELSE <<>>)
    \o (IF ~Truthy(country2_data) THEN <<country2>> ELSE <<>>)

\* fetch_comparison_data: the pair of records, the first name fetched first
fetch_comparison_data(country1, country2, response1, response2) ==
    <<Insights_fetch_country_data(country1, response1),
      Insights_fetch_country_data(country2, response2)>>

\* what the user types into the two name boxes
ComparisonInputs == {<<>>, France, Japan, Atlantis}

\* shown: "comparison" (the analysis card), "error" (could not find data
\* for ...), "warning" (please enter both country names)
CompareTrace(country1, country2, fetch_calls, requested, completion_calls, shown, missing, text) ==
    [op |-> "compare", country1 |-> country1, country2 |-> country2,
     fetch_calls |-> fetch_calls, requested |-> requested,
     completion_calls |-> completion_calls, shown |-> shown, missing |-> missing,
     text |-> text]

\* the insights page is open, the chat page may have been opened before
InitCompare ==
    /\ chat_history = <<>>
    /\ current_country = UnitedStates
    /\ country_data = None
    /\ chat_started = FALSE
    /\ \E key \in InitKeys, probes \in InitProbes :
         \E ikey \in InitKeys, iprobes \in InitProbes :
         /\ resource_cache = [chatbot |-> cache_resource(EmptyCache["chatbot"], key, probes),
                              insights |-> cache_resource(EmptyCache["insights"], ikey, iprobes)]
         /\ gemini_model = resource_cache["chatbot"].value
    /\ pc = "idle"
    /\ last = Trace("start", <<>>, NoCmd, <<>>, <<>>)

\* the Generate Comparison button
GenerateComparisonClick(country1, country2) ==
    /\ pc = "idle"
    /\ IF country1 # <<>> /\ country2 # <<>> THEN
           \E response1 \in Responses(country1), response2 \in Responses(country2),
              completion \in Completions :
             LET model == resource_cache["insights"].value
                 pair == fetch_comparison_data(country1, country2, response1, response2)
                 calls == <<FetchCall(country1, pair[1], "handler"),
                            FetchCall(country2, pair[2], "handler")>>
             IN
             IF Truthy(pair[1]) /\ Truthy(pair[2])
             THEN last' = CompareTrace(country1, country2, calls, TRUE,
                                       IF model = NoModel THEN 0 ELSE 1, "comparison", <<>>,
                                       generate_country_comparison(model, completion))
             ELSE last' = CompareTrace(country1, country2, calls, FALSE, 0, "error",
                                       MissingCountries(country1, pair[1], country2, pair[2]),
                                       <<>>)
       ELSE last' = CompareTrace(country1, country2, <<>>, FALSE, 0, "warning", <<>>, <<>>)
    /\ UNCHANGED <<chat_history, current_country, country_data, chat_started, gemini_model,
                   resource_cache, pc>>

GenerateComparison ==
    \E country1 \in ComparisonInputs, country2 \in ComparisonInputs :
      GenerateComparisonClick(country1, country2)

NextCompare == GenerateComparison

SpecCompare == InitCompare /\ [][NextCompare]_vars

Compared == last.op = "compare"

\* C24: on the comparison tab both countries are fetched, the first and then
\* the second, when both names are non-empty, and nothing is fetched when a
\* name is empty; the AI comparison is requested if and only if both fetches
\* returned a record; otherwise the error lists exactly the entered names whose
\* fetch found nothing, first then second, and no completion call is made.
C24_ComparisonFetchesBoth ==
    Compared
    => LET calls == last.fetch_calls IN
       /\ (last.country1 # <<>> /\ last.country2 # <<>>)
            => (/\ Len(calls) = 2
                /\ calls[1].country_name = last.country1
                /\ calls[2].country_name = last.country2
                /\ last.requested = (calls[1].found /\ calls[2].found)
                /\ ~last.requested
                     => (/\ last.shown = "error"
                         /\ last.completion_calls = 0
                         /\ last.missing
                              = (IF calls[1].found THEN <<>> ELSE <<last.country1>>)
                                \o (IF calls[2].found THEN <<>> ELSE <<last.country2>>)))
       /\ (last.country1 = <<>> \/ last.country2 = <<>>)
            => (/\ calls = <<>> /\ ~last.requested
                /\ last.completion_calls = 0 /\ last.shown = "warning")
       /\ last.requested => last.shown = "comparison"
       /\ last.completion_calls <= 1

\* both names were entered and both fetches found nothing: the error lists
\* the first name and then the second
C24_Witness ==
    /\ Compared
    /\ last.country1 = Atlantis /\ last.country2 = Japan
    /\ Len(last.fetch_calls) = 2
    /\ ~last.fetch_calls[1].found /\ ~last.fetch_calls[2].found
    /\ last.missing = <<Atlantis, Japan>>

====
